---- MODULE Spec2Model ----
(***************************************************************************)
(* State-machine model of src/c/blockchain_demo.c: a singly linked chain   *)
(* of Block records with a DJB2 fingerprint, its append, transaction,      *)
(* hashing and verification functions.                                     *)
(*                                                                         *)
(* Text is modelled as a sequence of character codes (ASCII), a char       *)
(* buffer by the bytes it holds before its first NUL.  Memory returned by  *)
(* malloc and not yet written holds the markers NoStr / NoNum / NoAmount;  *)
(* no modelled operation reads such a value.                               *)
(***************************************************************************)
EXTENDS Integers, Sequences, FiniteSets, TLC

----------------------------------------------------------------------------
(* Program constants *)

MAX_TRANSACTIONS == 10

HASH_LENGTH == 32

\* sizeof(hash_data) in calculate_block_hash
HASH_DATA_SIZE == 256

\* size given to snprintf for Transaction.sender / receiver
NAME_SIZE == 64

\* bytes between the end of previous_hash (offset 4 + 33) and transactions
\* (offset 40: Transaction holds a double and is 8-aligned; 4-aligned ABIs
\* give 40 as well)
PAD_BYTES == 3

\* unsigned long is 64 bits wide (LP64): kept as 4 limbs of 16 bits, least
\* significant first, so that no intermediate value leaves 32 bits
LIMB == 65536

DJB2_SEED == 5381

\* the add_block calls main makes, lines 221-223
MAIN_ADD_BLOCKS == 3

----------------------------------------------------------------------------
(* Bounds of the model *)

\* blocks in the chain, genesis included
MaxBlocks == 3

\* blocks in the chain of the caller that fills blocks (SpecFill)
MaxFillBlocks == 2

\* seconds the clock may advance past StartTime
MaxTicks == 1

\* time(NULL) when the program starts (2026-02-10 00:00:00 UTC)
StartTime == 1770681600

\* blocks of the chains handed to verify_blockchain with hash fields of any
\* value (SpecVerify)
MaxVerifyBlocks == 3

\* what the caller does to single blocks, besides building the chain: its own
\* add_transaction and calculate_block_hash calls and its overwrites of a
\* previous_hash field, taken together
MaxCalls == 2

----------------------------------------------------------------------------
(* Text *)

NUL == 0

NoStr == <<-1>>

NoNum == -1

NoAmount == "indeterminate"

Zeros(n) == [i \in 1..n |-> 48]

\* the literal of create_genesis_block: 38 characters '0'
GENESIS_LITERAL == Zeros(38)

Alice == <<65, 108, 105, 99, 101>>

Bob == <<66, 111, 98>>

Charlie == <<67, 104, 97, 114, 108, 105, 101>>

Dave == <<68, 97, 118, 101>>

Eve == <<69, 118, 101>>

Min(a, b) == IF a < b THEN a ELSE b

Take(s, n) == SubSeq(s, 1, Min(Len(s), n))

Drop(s, n) == SubSeq(s, n + 1, Len(s))

\* the C string starting at the first byte of a byte sequence
HasNul(bytes) == \E i \in 1..Len(bytes) : bytes[i] = NUL

UpToNul(bytes) ==
  IF HasNul(bytes)
  THEN SubSeq(bytes, 1, (CHOOSE i \in 1..Len(bytes) :
                           bytes[i] = NUL /\ \A j \in 1..(i - 1) : bytes[j] # NUL) - 1)
  ELSE bytes

\* printf "%d" / "%ld"
RECURSIVE Decimal(_)
Decimal(n) ==
  IF n < 0 THEN <<45>> \o Decimal(-n)
  ELSE IF n < 10 THEN <<48 + n>>
  ELSE Append(Decimal(n \div 10), 48 + (n % 10))

\* snprintf(buf, size, "%s", s): at most size - 1 characters and a NUL
snprintf(size, s) == Take(s, size - 1)

----------------------------------------------------------------------------
(* simple_hash: DJB2 over unsigned long *)

hash_step(h, c) ==
  LET t1 == (h[1] * 32 + h[1]) + c
      t2 == (h[2] * 32 + h[2]) + (t1 \div LIMB)
      t3 == (h[3] * 32 + h[3]) + (t2 \div LIMB)
      t4 == (h[4] * 32 + h[4]) + (t3 \div LIMB)
  IN  <<t1 % LIMB, t2 % LIMB, t3 % LIMB, t4 % LIMB>>

\* the loop of simple_hash run over data[lo..hi] from the value h.  The range
\* is consumed by halves, and the comparison makes TLC evaluate the first half
\* before it starts the second, so that the evaluation stays shallow.
RECURSIVE hash_loop(_, _, _, _)
hash_loop(h, data, lo, hi) ==
  IF lo > hi THEN h
  ELSE IF lo = hi THEN hash_step(h, data[lo])
  ELSE LET mid  == (lo + hi) \div 2
           left == hash_loop(h, data, lo, mid)
       IN  IF left = <<>> THEN left ELSE hash_loop(left, data, mid + 1, hi)

simple_hash(data) == hash_loop(<<DJB2_SEED, 0, 0, 0>>, data, 1, Len(data))

HexChar(d) == IF d < 10 THEN 48 + d ELSE 87 + d

LimbHex(l) ==
  <<HexChar(l \div 4096), HexChar((l \div 256) % 16),
    HexChar((l \div 16) % 16), HexChar(l % 16)>>

\* drops leading '0' characters, keeping the last digit
StripZeros(s) ==
  LET first == CHOOSE i \in 1..Len(s) :
                 (s[i] # 48 \/ i = Len(s)) /\ \A j \in 1..(i - 1) : s[j] = 48
  IN  SubSeq(s, first, Len(s))

\* printf "%lx": lower-case hexadecimal without leading zeros
Hex(h) == StripZeros(LimbHex(h[4]) \o LimbHex(h[3]) \o LimbHex(h[2]) \o LimbHex(h[1]))

----------------------------------------------------------------------------
(* Block *)

NoTx == [sender |-> NoStr, receiver |-> NoStr, amount |-> NoAmount, timestamp |-> NoNum]

\* malloc(sizeof(Block)): nothing written yet
Malloc ==
  [index |-> NoNum, previous_hash |-> NoStr, pad |-> [i \in 1..PAD_BYTES |-> NoNum],
   transactions |-> [i \in 1..MAX_TRANSACTIONS |-> NoTx],
   transaction_count |-> NoNum, timestamp |-> NoNum,
   current_hash |-> NoStr, next |-> NoNum]

\* the string a "%s" or strcmp reads at block->previous_hash: the field's
\* HASH_LENGTH + 1 bytes, and when none of them is NUL the padding bytes and
\* transactions[0].sender that follow it in the struct
ReadPreviousHash(block) ==
  IF Len(block.previous_hash) <= HASH_LENGTH THEN block.previous_hash
  ELSE block.previous_hash \o UpToNul(block.pad)
       \o (IF HasNul(block.pad) THEN <<>> ELSE block.transactions[1].sender)

\* strcpy(block->previous_hash, s): Len(s) + 1 bytes from the field's first
\* byte on, whatever the field's size
strcpy_previous_hash(block, s) ==
  LET bytes == Append(s, NUL)
      field == HASH_LENGTH + 1
      over  == Drop(bytes, field)
      padw  == Take(over, PAD_BYTES)
      snd   == Drop(over, PAD_BYTES)
  IN  [block EXCEPT
         !.previous_hash = UpToNul(Take(bytes, field)),
         !.pad = [i \in 1..PAD_BYTES |-> IF i <= Len(padw) THEN padw[i] ELSE @[i]],
         !.transactions[1].sender = IF snd = <<>> THEN @ ELSE UpToNul(snd)]

----------------------------------------------------------------------------
(* The functions of the program, as functions of the block they are given *)

MSG_ADDED == "Transaction added"

MSG_FULL == "Block full! Cannot add transaction."

\* add_transaction with the capacity test off by one (<= for <)
add_transaction_off_by_one(block, sender, receiver, amount, t) ==
  IF block.transaction_count <= MAX_TRANSACTIONS
  THEN [block |-> [block EXCEPT
                     !.transactions = [i \in 1..MAX_TRANSACTIONS |->
                        IF i = block.transaction_count + 1
                        THEN [sender |-> snprintf(NAME_SIZE, sender),
                              receiver |-> snprintf(NAME_SIZE, receiver),
                              amount |-> amount, timestamp |-> t]
                        ELSE @[i]],
                     !.transaction_count = @ + 1],
        out |-> MSG_ADDED]
  ELSE [block |-> block, out |-> MSG_FULL]

\* add_transaction that, given a full block, stores the transaction over the
\* first one instead of leaving the block alone
add_transaction_clobbers_first(block, sender, receiver, amount, t) ==
  LET tx == [sender |-> snprintf(NAME_SIZE, sender),
             receiver |-> snprintf(NAME_SIZE, receiver),
             amount |-> amount, timestamp |-> t]
  IN  IF block.transaction_count < MAX_TRANSACTIONS
      THEN [block |-> [block EXCEPT
                         !.transactions[block.transaction_count + 1] = tx,
                         !.transaction_count = @ + 1],
            out |-> MSG_ADDED]
      ELSE [block |-> [block EXCEPT !.transactions[1] = tx],
            out |-> MSG_FULL]

\* add_transaction: the block after the call and the line it prints
add_transaction(block, sender, receiver, amount, t) ==
  IF block.transaction_count < MAX_TRANSACTIONS
  THEN [block |-> [block EXCEPT
                     !.transactions[block.transaction_count + 1] =
                        [sender |-> snprintf(NAME_SIZE, sender),
                         receiver |-> snprintf(NAME_SIZE, receiver),
                         amount |-> amount,
                         timestamp |-> t],
                     !.transaction_count = @ + 1],
        out |-> MSG_ADDED]
  ELSE [block |-> block, out |-> MSG_FULL]

\* the text calculate_block_hash builds in hash_data
hash_data(block) ==
  snprintf(HASH_DATA_SIZE,
           Decimal(block.index) \o ReadPreviousHash(block) \o Decimal(block.timestamp))

\* calculate_block_hash that does not store what it computed
calculate_block_hash_not_stored(block) == block

calculate_block_hash(block) ==
  [block EXCEPT !.current_hash = snprintf(HASH_LENGTH, Hex(simple_hash(hash_data(block))))]

\* create_genesis_block, lines 118-123: the block before its hash is computed
genesis_fields(t) ==
  [strcpy_previous_hash([Malloc EXCEPT !.index = 0], GENESIS_LITERAL)
     EXCEPT !.transaction_count = 0, !.timestamp = t, !.next = 0]

\* add_block copying the tail's previous_hash instead of its current_hash
new_block_fields_copies_previous(last_block, t) ==
  [strcpy_previous_hash([Malloc EXCEPT !.index = last_block.index + 1],
                        ReadPreviousHash(last_block))
     EXCEPT !.transaction_count = 0, !.timestamp = t, !.next = 0]

\* add_block giving the new block the tail's index
new_block_fields_same_index(last_block, t) ==
  [strcpy_previous_hash([Malloc EXCEPT !.index = last_block.index],
                        last_block.current_hash)
     EXCEPT !.transaction_count = 0, !.timestamp = t, !.next = 0]

\* add_block, lines 140-145: the new block before it is linked
new_block_fields(last_block, t) ==
  [strcpy_previous_hash([Malloc EXCEPT !.index = last_block.index + 1],
                        last_block.current_hash)
     EXCEPT !.transaction_count = 0, !.timestamp = t, !.next = 0]

\* add_block without its search for the tail
find_last_is_head(h, a) == a

\* add_block, lines 134-137: the last block reachable from a
RECURSIVE find_last(_, _)
find_last(h, a) == IF h[a].next = 0 THEN a ELSE find_last(h, h[a].next)

\* verify_blockchain naming the block before the mismatch
RECURSIVE verify_blockchain_names_current(_, _)
verify_blockchain_names_current(h, current) ==
  IF current = 0 THEN [ret |-> 1, warned |-> NoNum]
  ELSE LET next == h[current].next IN
       IF next # 0 /\ ReadPreviousHash(h[next]) # h[current].current_hash
       THEN [ret |-> 0, warned |-> h[current].index]
       ELSE verify_blockchain_names_current(h, next)

\* verify_blockchain that walks on after a mismatch and names the last one
RECURSIVE verify_blockchain_reports_last(_, _)
verify_blockchain_reports_last(h, current) ==
  IF current = 0 THEN [ret |-> 1, warned |-> NoNum]
  ELSE LET next == h[current].next
           rest == verify_blockchain_reports_last(h, next)
       IN  IF rest.ret = 0 THEN rest
           ELSE IF next # 0 /\ ReadPreviousHash(h[next]) # h[current].current_hash
           THEN [ret |-> 0, warned |-> h[next].index]
           ELSE rest

\* verify_blockchain: its return value and the index its WARNING names
RECURSIVE verify_blockchain(_, _)
verify_blockchain(h, current) ==
  IF current = 0 THEN [ret |-> 1, warned |-> NoNum]
  ELSE LET next == h[current].next IN
       IF next # 0 /\ ReadPreviousHash(h[next]) # h[current].current_hash
       THEN [ret |-> 0, warned |-> h[next].index]
       ELSE verify_blockchain(h, next)

\* print_blockchain with the loop condition current->next != NULL: it stops
\* at the tail without printing or counting it
RECURSIVE print_blockchain_stops_at_tail(_, _, _)
print_blockchain_stops_at_tail(h, current, count) ==
  IF current = 0 \/ h[current].next = 0 THEN [printed |-> <<>>, count |-> count]
  ELSE LET rest == print_blockchain_stops_at_tail(h, h[current].next, count + 1)
       IN  [printed |-> <<current>> \o rest.printed, count |-> rest.count]

\* print_blockchain, lines 186-191, from the local current and count: the
\* blocks it hands to print_block, in order, and the total it prints
RECURSIVE print_blockchain(_, _, _)
print_blockchain(h, current, count) ==
  IF current = 0 THEN [printed |-> <<>>, count |-> count]
  ELSE LET rest == print_blockchain(h, h[current].next, count + 1)
       IN  [printed |-> <<current>> \o rest.printed, count |-> rest.count]

\* the values a read of block a's next field can give: the field, or any
\* pointer once block a has been given to free
LoadNext(h, released, a) ==
  IF \E i \in 1..Len(released) : released[i] = a THEN 0..Len(h) ELSE {h[a].next}

\* free_blockchain freeing current before it reads current->next
free_turn_reads_after_free(h, released, current) ==
  [freed |-> Append(released, current),
   next  |-> LoadNext(h, Append(released, current), current)]

\* free_blockchain, lines 201-203, one turn of its loop: the blocks given to
\* free so far and the values the new current can have
free_turn(h, released, current) ==
  [freed |-> Append(released, current),
   next  |-> LoadNext(h, released, current)]

\* the blocks reachable from a, in order
RECURSIVE Chain(_, _)
Chain(h, a) == IF a = 0 THEN <<>> ELSE <<a>> \o Chain(h, h[a].next)

----------------------------------------------------------------------------
(* State *)

VARIABLES
  heap,        \* the Blocks allocated so far, by address 1..Len(heap)
  blockchain,  \* main's Block* blockchain: the head, NULL before creation
  now,         \* the value time(NULL) returns
  pc,          \* where the caller is: "idle" between calls, a label inside
               \* create_genesis_block / add_block, or "aborted"
  new_block,   \* add_block's local new_block
  last,        \* the call that returned last: its name, the block it was given,
               \* its return value, the index its WARNING named, the line it printed
  hist,        \* what the caller may still do and has done to single blocks, and
               \* the number of add_block calls it has made
  freed,       \* the addresses given to free, in the order of the calls
  free_current \* free_blockchain's local current

vars == <<heap, blockchain, now, pc, new_block, last, hist, freed, free_current>>

NULL == 0

Addrs == 1..Len(heap)

Call(op, block, ret, warned, out) ==
  [op |-> op, block |-> block, ret |-> ret, warned |-> warned, out |-> out]

\* inputs of the caller's own add_transaction calls
TxInputs ==
  { [sender |-> Eve, receiver |-> Bob, amount |-> "-2.0"],
    [sender |-> <<48, 48>>, receiver |-> Alice, amount |-> "0.0"] }

\* the input of the calls that fill a block (SpecFill)
Filler == [sender |-> Eve, receiver |-> Dave, amount |-> "0.25"]

\* strings a caller overwrites a previous_hash with
TamperStrings == { <<100, 101, 97, 100>> }

Init ==
  /\ heap = <<>>
  /\ blockchain = NULL
  /\ now = StartTime
  /\ pc = "idle"
  /\ new_block = NULL
  /\ last = Call("none", NULL, NoNum, NoNum, "")
  /\ hist = [calls_left |-> MaxCalls, direct_tx |-> FALSE, direct_hash |-> FALSE,
             tampered |-> {}, tampers |-> 0, add_block_calls |-> 0]
  /\ freed = <<>>
  /\ free_current = NULL

----------------------------------------------------------------------------
(* Actions *)

\* the clock advances by a second between two calls
Tick ==
  /\ pc = "idle"
  /\ now < StartTime + MaxTicks
  /\ now' = now + 1
  /\ UNCHANGED <<freed, free_current, heap, blockchain, pc, new_block, last, hist>>

\* create_genesis_block, lines 118-123, in a build whose strcpy writes all
\* 39 bytes of the literal
CreateGenesisFields ==
  /\ pc = "idle" /\ blockchain = NULL
  /\ heap' = Append(heap, genesis_fields(now))
  /\ blockchain' = Len(heap) + 1
  /\ pc' = "genesis_hash"
  /\ UNCHANGED <<freed, free_current, now, new_block, last, hist>>

\* create_genesis_block, line 120, in a build whose strcpy checks the size of
\* the destination (_FORTIFY_SOURCE): the process is terminated
CreateGenesisAbort ==
  /\ pc = "idle" /\ blockchain = NULL
  /\ pc' = "aborted"
  /\ last' = Call("create_genesis_block", NULL, NoNum, NoNum,
                  "*** buffer overflow detected ***: terminated")
  /\ UNCHANGED <<freed, free_current, heap, blockchain, now, new_block, hist>>

\* create_genesis_block, lines 124-125
CreateGenesisHash ==
  /\ pc = "genesis_hash"
  /\ heap' = [heap EXCEPT ![blockchain] = calculate_block_hash(@)]
  /\ pc' = "idle"
  /\ last' = Call("create_genesis_block", NULL, NoNum, NoNum, "Genesis block created.")
  /\ UNCHANGED <<freed, free_current, blockchain, now, new_block, hist>>

\* add_block, lines 134-146: find the tail, build the new block, link it
LinkNewBlock ==
  /\ pc = "idle" /\ blockchain # NULL
  /\ LET last_block == find_last(heap, blockchain)
         n == Len(heap) + 1
     IN  /\ heap' = Append([heap EXCEPT ![last_block].next = n],
                           new_block_fields(heap[last_block], now))
         /\ new_block' = n
  /\ pc' = "seed1"
  /\ hist' = [hist EXCEPT !.add_block_calls = @ + 1]
  /\ UNCHANGED <<freed, free_current, blockchain, now, last>>

AddBlockLink == Len(heap) < MaxBlocks /\ LinkNewBlock

AddBlockLinkFill == Len(heap) < MaxFillBlocks /\ LinkNewBlock

\* add_block storing its transactions in the old tail instead of the new block
SeedOldTail(at, sender, receiver, amount, then) ==
  /\ pc = at
  /\ LET tail == CHOOSE b \in Addrs : heap[b].next = new_block
         r == add_transaction(heap[tail], sender, receiver, amount, now)
     IN  /\ heap' = [heap EXCEPT ![tail] = r.block]
         /\ last' = Call("add_transaction", tail, NoNum, NoNum, r.out)
  /\ pc' = then
  /\ UNCHANGED <<freed, free_current, blockchain, now, new_block, hist>>

\* one of add_block's add_transaction calls, lines 149-150
Seed(at, sender, receiver, amount, then) ==
  /\ pc = at
  /\ LET r == add_transaction(heap[new_block], sender, receiver, amount, now)
     IN  /\ heap' = [heap EXCEPT ![new_block] = r.block]
         /\ last' = Call("add_transaction", new_block, NoNum, NoNum, r.out)
  /\ pc' = then
  /\ UNCHANGED <<freed, free_current, blockchain, now, new_block, hist>>

AddBlockSeed1 == Seed("seed1", Alice, Bob, "1.5", "seed2")

AddBlockSeed2 == Seed("seed2", Charlie, Dave, "0.75", "hash")

\* add_block, lines 153-155
AddBlockHash ==
  /\ pc = "hash"
  /\ heap' = [heap EXCEPT ![new_block] = calculate_block_hash(@)]
  /\ pc' = "idle"
  /\ new_block' = NULL
  /\ last' = Call("add_block", NULL, NoNum, NoNum, "Block added to blockchain.")
  /\ UNCHANGED <<freed, free_current, blockchain, now, hist>>

\* the caller calls add_transaction on block b; left is what remains of its
\* budget of such calls
DirectAdd(b, tx, left) ==
  /\ pc = "idle"
  /\ LET r == add_transaction(heap[b], tx.sender, tx.receiver, tx.amount, now)
     IN  /\ heap' = [heap EXCEPT ![b] = r.block]
         /\ last' = Call("add_transaction", b, NoNum, NoNum, r.out)
         /\ hist' = [hist EXCEPT
                       !.calls_left = left,
                       !.direct_tx = TRUE]
  /\ UNCHANGED <<freed, free_current, blockchain, now, pc, new_block>>

AddTransactionCall ==
  /\ hist.calls_left > 0
  /\ \E b \in Addrs, tx \in TxInputs : DirectAdd(b, tx, hist.calls_left - 1)

FillCall == \E b \in Addrs : DirectAdd(b, Filler, hist.calls_left)

\* the caller calls calculate_block_hash on block b
DirectHash(b) ==
  /\ pc = "idle"
  /\ hist.calls_left > 0
  /\ heap' = [heap EXCEPT ![b] = calculate_block_hash(@)]
  /\ last' = Call("calculate_block_hash", b, NoNum, NoNum, "")
  /\ hist' = [hist EXCEPT !.calls_left = @ - 1, !.direct_hash = TRUE]
  /\ UNCHANGED <<freed, free_current, blockchain, now, pc, new_block>>

CalculateBlockHashCall == \E b \in Addrs : DirectHash(b)

\* the caller overwrites block b's previous_hash with another string
Overwrite(b, s) ==
  /\ pc = "idle"
  /\ hist.calls_left > 0
  /\ s # ReadPreviousHash(heap[b])
  /\ heap' = [heap EXCEPT ![b] = strcpy_previous_hash(@, s)]
  /\ last' = Call("overwrite", b, NoNum, NoNum, "")
  /\ hist' = [hist EXCEPT !.calls_left = @ - 1, !.tampered = @ \cup {b},
                             !.tampers = @ + 1]
  /\ UNCHANGED <<freed, free_current, blockchain, now, pc, new_block>>

Tamper == \E b \in Addrs, s \in TamperStrings : Overwrite(b, s)

\* the caller calls verify_blockchain(blockchain)
VerifyCall ==
  /\ pc = "idle"
  /\ LET v == verify_blockchain(heap, blockchain)
     IN  last' = Call("verify_blockchain", blockchain, v.ret, v.warned,
                      IF v.ret = 0 THEN "WARNING: hash mismatch!" ELSE "")
  /\ UNCHANGED <<freed, free_current, heap, blockchain, now, pc, new_block, hist>>

Next ==
  \/ Tick
  \/ CreateGenesisFields
  \/ CreateGenesisAbort
  \/ CreateGenesisHash
  \/ AddBlockLink
  \/ AddBlockSeed1
  \/ AddBlockSeed2
  \/ AddBlockHash
  \/ AddTransactionCall
  \/ CalculateBlockHashCall
  \/ Tamper
  \/ VerifyCall

Spec == Init /\ [][Next]_vars

\* the same program with a caller that fills blocks: its add_transaction calls
\* are not limited in number, take one input and the clock stands still
NextFill ==
  \/ CreateGenesisFields
  \/ CreateGenesisAbort
  \/ CreateGenesisHash
  \/ AddBlockLinkFill
  \/ AddBlockSeed1
  \/ AddBlockSeed2
  \/ AddBlockHash
  \/ FillCall
  \/ CalculateBlockHashCall
  \/ VerifyCall

SpecFill == Init /\ [][NextFill]_vars

\* the caller calls print_blockchain(blockchain)
PrintCall ==
  /\ pc = "idle"
  /\ last' = Call("print_blockchain", blockchain,
                  print_blockchain(heap, blockchain, 0).count, NoNum,
                  "Total blocks in blockchain")
  /\ UNCHANGED <<heap, blockchain, now, pc, new_block, hist, freed, free_current>>

\* the caller calls free_blockchain(blockchain): line 199
FreeBlockchainCall ==
  /\ pc = "idle"
  /\ free_current' = blockchain
  /\ pc' = "free_loop"
  /\ UNCHANGED <<heap, blockchain, now, new_block, last, hist, freed>>

\* free_blockchain, lines 200-204: one turn of the loop
FreeTurn ==
  /\ pc = "free_loop" /\ free_current # NULL
  /\ LET t == free_turn(heap, freed, free_current)
     IN  /\ freed' = t.freed
         /\ free_current' \in t.next
  /\ UNCHANGED <<heap, blockchain, now, pc, new_block, last, hist>>

\* free_blockchain, lines 200 and 205: the loop ends and the call returns; the
\* caller's handle still holds the address of the released head, and nothing
\* more is done with it
FreeReturn ==
  /\ pc = "free_loop" /\ free_current = NULL
  /\ pc' = IF blockchain = NULL THEN "idle" ELSE "released"
  /\ last' = Call("free_blockchain", blockchain, NoNum, NoNum, "")
  /\ UNCHANGED <<heap, blockchain, now, new_block, hist, freed, free_current>>

\* the same program with a caller that builds a chain, prints it, verifies it
\* and releases it
NextWalk ==
  \/ Tick
  \/ CreateGenesisFields
  \/ CreateGenesisAbort
  \/ CreateGenesisHash
  \/ AddBlockLink
  \/ AddBlockSeed1
  \/ AddBlockSeed2
  \/ AddBlockHash
  \/ PrintCall
  \/ VerifyCall
  \/ FreeBlockchainCall
  \/ FreeTurn
  \/ FreeReturn

\* a call of free_blockchain that has begun keeps running
SpecWalk ==
  Init /\ [][NextWalk]_vars /\ WF_vars(FreeTurn) /\ WF_vars(FreeReturn)

\* &blockchain: the address of main's variable blockchain, which is no Block
ADDR_OF_BLOCKCHAIN == -2

\* a pointer to memory that cannot be read
WILD_POINTER == -3

\* strings the bytes above main's variable can hold where a Block has its
\* current_hash: the empty string and one unprintable byte
StackStrings == { <<>>, <<127>> }

\* the memory verify_blockchain reads when it is given &blockchain: the heap,
\* and at &blockchain what is on the stack above the variable, read as a
\* Block whose next and current_hash fields hold nxt and str
StackAsBlock(nxt, str) ==
  [a \in Addrs \cup {ADDR_OF_BLOCKCHAIN} |->
     IF a = ADDR_OF_BLOCKCHAIN
     THEN [Malloc EXCEPT !.next = nxt, !.current_hash = str]
     ELSE heap[a]]

\* main, lines 229-234: verify_blockchain(&blockchain).  The word read as
\* current->next lies beyond main's variable and is indeterminate: NULL, the
\* address of a Block, or a pointer whose target cannot be read (the process
\* is then terminated by a signal).
MainVerify ==
  /\ pc = "idle" /\ last.op = "print_blockchain"
  /\ \E nxt \in {NULL, WILD_POINTER} \cup Addrs, str \in StackStrings :
       IF nxt = WILD_POINTER
       THEN /\ pc' = "aborted"
            /\ last' = Call("verify_blockchain", ADDR_OF_BLOCKCHAIN, NoNum, NoNum,
                            "Segmentation fault")
       ELSE LET v == verify_blockchain(StackAsBlock(nxt, str), ADDR_OF_BLOCKCHAIN)
            IN  /\ pc' = pc
                /\ last' = Call("verify_blockchain", ADDR_OF_BLOCKCHAIN, v.ret, v.warned,
                                IF v.ret = 1 THEN "Blockchain is valid!"
                                ELSE "Blockchain verification failed!")
  /\ UNCHANGED <<heap, blockchain, now, new_block, hist, freed, free_current>>

\* main, lines 221-223
MainAddBlock == hist.add_block_calls < MAIN_ADD_BLOCKS /\ LinkNewBlock

\* main, line 226
MainPrint ==
  /\ hist.add_block_calls = MAIN_ADD_BLOCKS /\ last.op = "add_block"
  /\ PrintCall

\* main, line 237
MainFree == last.op = "verify_blockchain" /\ FreeBlockchainCall

\* main: its calls in the order of lines 218-237; where main stands is told
\* by the call that returned last and the number of add_block calls made
NextMain ==
  \/ Tick
  \/ CreateGenesisFields
  \/ CreateGenesisAbort
  \/ CreateGenesisHash
  \/ MainAddBlock
  \/ AddBlockSeed1
  \/ AddBlockSeed2
  \/ AddBlockHash
  \/ MainPrint
  \/ MainVerify
  \/ MainFree
  \/ FreeTurn
  \/ FreeReturn

SpecMain == Init /\ [][NextMain]_vars

\* verify_blockchain given chains whose previous_hash and current_hash fields
\* hold any strings: the empty string, "a" and "ab"
FieldStrings == { <<>>, <<97>>, <<97, 98>> }

\* the i-th of n linked blocks, with the two hash fields as given
LinkedBlock(i, n, prev, cur) ==
  [Malloc EXCEPT !.index = i - 1, !.previous_hash = prev, !.transaction_count = 0,
                 !.timestamp = StartTime, !.current_hash = cur,
                 !.next = IF i < n THEN i + 1 ELSE NULL]

InitVerify ==
  /\ \E n \in 0..MaxVerifyBlocks :
       \E prev \in [1..n -> FieldStrings], cur \in [1..n -> FieldStrings] :
         /\ heap = [i \in 1..n |-> LinkedBlock(i, n, prev[i], cur[i])]
         /\ blockchain = IF n = 0 THEN NULL ELSE 1
  /\ now = StartTime
  /\ pc = "idle"
  /\ new_block = NULL
  /\ last = Call("none", NULL, NoNum, NoNum, "")
  /\ hist = [calls_left |-> 0, direct_tx |-> FALSE, direct_hash |-> FALSE,
             tampered |-> {}, tampers |-> 0, add_block_calls |-> 0]
  /\ freed = <<>>
  /\ free_current = NULL

NextVerify == VerifyCall

SpecVerify == InitVerify /\ [][NextVerify]_vars

----------------------------------------------------------------------------
(* Properties *)

\* the caller has only built the chain: no call of its own on a single block
Pristine == ~hist.direct_tx /\ ~hist.direct_hash /\ hist.tampered = {}

ChainBlocks == Chain(heap, blockchain)

InChain(a) == \E k \in 1..Len(ChainBlocks) : ChainBlocks[k] = a

\* the step is an add_transaction call on block b, add_block's or the caller's
AddTransactionOn(b) ==
  \/ new_block = b /\ (AddBlockSeed1 \/ AddBlockSeed2)
  \/ \E tx \in TxInputs \cup {Filler} : DirectAdd(b, tx, hist'.calls_left)

\* C1: after create_genesis_block and any number of add_block calls, with no
\* other write to the blocks, verify_blockchain on the head returns 1 and
\* prints no warning.
C1_BuiltChainVerifies ==
  (pc = "idle" /\ blockchain # NULL /\ Pristine) =>
    /\ verify_blockchain(heap, blockchain) = [ret |-> 1, warned |-> NoNum]
    /\ last.op = "verify_blockchain" => (last.ret = 1 /\ last.warned = NoNum)

C1_Witness ==
  /\ Pristine /\ Len(ChainBlocks) >= 3
  /\ last.op = "verify_blockchain" /\ last.block = blockchain /\ last.ret = 1

\* verify_blockchain was the last call to return, after the caller overwrote
\* the previous_hash of block b with another string, once, and did nothing
\* else to a single block
VerifiedAfterOverwriteOf(b) ==
  /\ hist.tampered = {b} /\ hist.tampers = 1
  /\ ~hist.direct_tx /\ ~hist.direct_hash
  /\ last.op = "verify_blockchain"

\* C2, as claimed: whichever block of the chain had its previous_hash
\* overwritten with a different string, verify_blockchain returns 0 and
\* reports that block's index.
C2_AnyOverwriteDetected ==
  \A b \in Addrs :
    VerifiedAfterOverwriteOf(b) => (last.ret = 0 /\ last.warned = heap[b].index)

\* C2, amended: an overwrite of the previous_hash of a block other than the
\* head makes verify_blockchain return 0 and report that block's index; an
\* overwrite of the head's previous_hash is not detected (it returns 1).
C2_OverwriteDetectedBehindHead ==
  \A b \in Addrs :
    VerifiedAfterOverwriteOf(b) =>
      IF b = blockchain
      THEN last.ret = 1 /\ last.warned = NoNum
      ELSE last.ret = 0 /\ last.warned = heap[b].index

C2_Witness ==
  \E b \in Addrs :
    /\ VerifiedAfterOverwriteOf(b) /\ heap[b].index = 1 /\ heap[b].next # NULL
    /\ last.ret = 0 /\ last.warned = 1

\* C3: transaction_count stays within 0..MAX_TRANSACTIONS; an add_transaction
\* call on a block holding MAX_TRANSACTIONS reports "Block full" and leaves the
\* count, a call on a block holding fewer adds exactly one.
C3_CapacityRespected ==
  /\ [](\A b \in Addrs : heap[b].transaction_count \in 0..MAX_TRANSACTIONS)
  /\ [][\A b \in Addrs :
          AddTransactionOn(b) =>
            IF heap[b].transaction_count = MAX_TRANSACTIONS
            THEN /\ heap'[b].transaction_count = MAX_TRANSACTIONS
                 /\ last'.out = MSG_FULL
            ELSE /\ heap'[b].transaction_count = heap[b].transaction_count + 1
                 /\ last'.out = MSG_ADDED]_vars

C3_Witness ==
  /\ last.op = "add_transaction" /\ last.out = MSG_FULL
  /\ heap[last.block].transaction_count = MAX_TRANSACTIONS
  /\ heap[last.block].index = 1

\* C4: an add_transaction call on a block that holds MAX_TRANSACTIONS changes
\* no field of any block, and chains with full blocks are still linked to and
\* verified as valid.
C4_RejectedCallChangesNothing ==
  /\ [][\A b \in Addrs :
          (AddTransactionOn(b) /\ heap[b].transaction_count = MAX_TRANSACTIONS) =>
            /\ heap' = heap
            /\ <<blockchain, pc, new_block, now, freed>>'
                 = <<blockchain, pc, new_block, now, freed>>]_vars
  /\ []((pc = "idle" /\ ~hist.direct_hash /\ hist.tampered = {}) =>
          verify_blockchain(heap, blockchain).ret = 1)

C4_Witness ==
  /\ blockchain # NULL
  /\ last.op = "verify_blockchain" /\ last.ret = 1
  /\ heap[blockchain].transaction_count = MAX_TRANSACTIONS
  /\ heap[blockchain].next # NULL
  /\ heap[heap[blockchain].next].transaction_count = MAX_TRANSACTIONS

\* C5: after create_genesis_block and any number of add_block calls the head
\* has index 0, the string read from its previous_hash is the all-zero literal
\* of create_genesis_block, and no other block of the chain has index 0.
C5_GenesisAtHead ==
  (blockchain # NULL /\ Pristine) =>
    /\ heap[blockchain].index = 0
    /\ ReadPreviousHash(heap[blockchain]) = GENESIS_LITERAL
    /\ \A i \in 1..Len(ReadPreviousHash(heap[blockchain])) :
         ReadPreviousHash(heap[blockchain])[i] = 48
    /\ \A k \in 2..Len(ChainBlocks) : heap[ChainBlocks[k]].index # 0

C5_Witness ==
  /\ Pristine /\ pc = "idle" /\ last.op = "add_block"
  /\ Len(ChainBlocks) >= 3 /\ heap[blockchain].index = 0

\* the fields calculate_block_hash is documented to depend on
HashedFields(block) == <<block.index, block.previous_hash, block.timestamp>>

\* C6, as claimed: a block's current_hash is determined by its index,
\* previous_hash and timestamp fields: while these three fields keep their
\* values, computing the hash again leaves current_hash as it was.
C6_HashDeterminedByThreeFields ==
  [][\A b \in Addrs :
       ( /\ heap[b].current_hash # NoStr
         /\ heap'[b].current_hash # NoStr
         /\ HashedFields(heap'[b]) = HashedFields(heap[b]) )
       => heap'[b].current_hash = heap[b].current_hash]_vars

\* C7, as claimed: for every block of the chain, genesis included, the hash
\* calculate_block_hash computes is the same with one more transaction stored
\* by add_transaction as without it.
C7_HashIgnoresTransactions ==
  pc = "idle" =>
    \A b \in Addrs, tx \in TxInputs :
      LET with == add_transaction(heap[b], tx.sender, tx.receiver, tx.amount, now).block
      IN  HashedFields(with) = HashedFields(heap[b]) =>
            calculate_block_hash(with).current_hash
              = calculate_block_hash(heap[b]).current_hash

AddBlockLabels == {"seed1", "seed2", "hash"}

\* C8, as claimed: while add_block runs, every block reachable from the head
\* has its current_hash assigned (the new block is linked only after its hash
\* is computed).
C8_LinkedOnlyAfterHash ==
  pc \in AddBlockLabels =>
    \A k \in 1..Len(ChainBlocks) : heap[ChainBlocks[k]].current_hash # NoStr

\* C8, amended: add_block links the new block as the tail's successor first,
\* then stores its two transactions, then computes its hash; between calls
\* every block reachable from the head has its current_hash assigned, and at
\* every step a block that has a successor has it assigned.
C8_HashedBeforeNextCall ==
  /\ pc = "idle" =>
       \A k \in 1..Len(ChainBlocks) : heap[ChainBlocks[k]].current_hash # NoStr
  /\ \A b \in Addrs : heap[b].next # NULL => heap[b].current_hash # NoStr
  /\ pc \in AddBlockLabels =>
       /\ InChain(new_block)
       /\ heap[new_block].next = NULL
       /\ heap[new_block].current_hash = NoStr
       /\ heap[new_block].transaction_count =
            (CASE pc = "seed1" -> 0 [] pc = "seed2" -> 1 [] pc = "hash" -> 2)

C8_Witness ==
  /\ pc = "hash" /\ InChain(new_block)
  /\ heap[new_block].transaction_count = 2
  /\ heap[new_block].current_hash = NoStr

\* a block without its link to the next block
Content(block) == [block EXCEPT !.next = NULL]

\* C9: the k-th block from the head has index k (from 0), and add_block
\* appends exactly one block at the tail, with index = old tail's index + 1 and
\* previous_hash = old tail's current_hash, and leaves the index,
\* previous_hash, timestamp, transactions and current_hash of every block that
\* existed before unchanged.
C9_AppendAtTail ==
  /\ [](\A k \in 1..Len(ChainBlocks) : heap[ChainBlocks[k]].index = k - 1)
  /\ [][AddBlockLink =>
          LET tail == ChainBlocks[Len(ChainBlocks)]
              new  == Len(heap) + 1
          IN  /\ Chain(heap', blockchain') = Append(ChainBlocks, new)
              /\ heap'[new].index = heap[tail].index + 1
              /\ ReadPreviousHash(heap'[new]) = heap[tail].current_hash
              /\ \A b \in Addrs : Content(heap'[b]) = Content(heap[b])]_vars
  /\ [][(AddBlockSeed1 \/ AddBlockSeed2 \/ AddBlockHash) =>
          /\ Chain(heap', blockchain') = ChainBlocks
          /\ \A b \in Addrs \ {new_block} : heap'[b] = heap[b]
          /\ heap'[new_block].index = heap[new_block].index
          /\ heap'[new_block].previous_hash = heap[new_block].previous_hash]_vars

C9_Witness ==
  /\ pc = "idle" /\ last.op = "add_block" /\ Len(ChainBlocks) = 3
  /\ heap[ChainBlocks[3]].index = 2
  /\ ReadPreviousHash(heap[ChainBlocks[3]]) = heap[ChainBlocks[2]].current_hash

\* what C10 says is frozen once the hash is computed
Sealed(block) ==
  <<block.index, block.previous_hash, block.timestamp, block.transactions,
    block.transaction_count, block.current_hash>>

\* the step is a call of the caller on the single block b
DirectOn(b) ==
  \/ \E tx \in TxInputs \cup {Filler} : DirectAdd(b, tx, hist'.calls_left)
  \/ DirectHash(b)
  \/ \E s \in TamperStrings : Overwrite(b, s)

\* the caller calls nothing but create_genesis_block, add_block and
\* add_transaction
OnlyBuildAndAdd(h) == ~h.direct_hash /\ h.tampered = {}

\* C10, as claimed: under any sequence of create_genesis_block, add_block and
\* add_transaction calls, a block whose current_hash has been computed never
\* changes its index, previous_hash, timestamp, transactions, transaction_count
\* or current_hash again.
C10_SealedUnderAnyCalls ==
  [][\A b \in Addrs :
       (heap[b].current_hash # NoStr /\ OnlyBuildAndAdd(hist) /\ OnlyBuildAndAdd(hist'))
       => Sealed(heap'[b]) = Sealed(heap[b])]_vars

\* C10, amended: under create_genesis_block and add_block calls, which call
\* add_transaction only on the block add_block is building, a block whose
\* current_hash has been computed never changes these fields again (a step
\* that changes them is a call of the caller on that very block);
\* add_transaction itself does not look at current_hash, and a call of it on
\* such a block with room left stores one more transaction in it.
C10_SealedUnlessCalledDirectly ==
  /\ [][\A b \in Addrs :
          (heap[b].current_hash # NoStr /\ Sealed(heap'[b]) # Sealed(heap[b]))
          => DirectOn(b)]_vars
  /\ [][\A b \in Addrs :
          ( /\ heap[b].current_hash # NoStr
            /\ heap[b].transaction_count < MAX_TRANSACTIONS
            /\ \E tx \in TxInputs : DirectAdd(b, tx, hist'.calls_left) )
          => /\ heap'[b].transaction_count = heap[b].transaction_count + 1
             /\ heap'[b].current_hash = heap[b].current_hash]_vars

C10_Witness ==
  /\ pc = "idle" /\ Len(ChainBlocks) = 3
  /\ last.op = "add_transaction" /\ last.block = ChainBlocks[2]
  /\ heap[ChainBlocks[2]].transaction_count = 3
  /\ heap[ChainBlocks[2]].current_hash # NoStr

\* the places k of the chain (2 = the head's successor) whose block holds a
\* previous_hash other than its predecessor's current_hash
Broken ==
  { k \in 2..Len(ChainBlocks) :
      ReadPreviousHash(heap[ChainBlocks[k]]) # heap[ChainBlocks[k - 1]].current_hash }

\* C11: for a chain with any values in the hash fields, verify_blockchain
\* returns 1 if and only if every block's previous_hash equals its
\* predecessor's current_hash; otherwise it returns 0 and reports the index of
\* the first block, from the head, for which they differ; it modifies no block.
C11_FirstMismatchReported ==
  /\ [](last.op = "verify_blockchain" =>
         /\ last.ret = 1 <=> Broken = {}
         /\ last.ret = 0 <=> Broken # {}
         /\ Broken = {} => last.warned = NoNum
         /\ Broken # {} =>
              LET first == CHOOSE k \in Broken : \A j \in Broken : k <= j
              IN  last.warned = heap[ChainBlocks[first]].index)
  /\ [][VerifyCall => (heap' = heap /\ blockchain' = blockchain)]_vars

C11_Witness ==
  /\ last.op = "verify_blockchain" /\ last.ret = 0
  /\ Len(ChainBlocks) = 3 /\ Broken = {2, 3}
  /\ last.warned = heap[ChainBlocks[2]].index

FreedSet == { freed[i] : i \in 1..Len(freed) }

\* C12: free_blockchain gives every block reachable from the head to free
\* exactly once, in head-to-tail order, reads the next field of a block only
\* before that block is released, and returns; when it has returned no block
\* of the chain is still allocated.
C12_ReleasedOnceInOrder ==
  /\ [](Cardinality(FreedSet) = Len(freed))
  /\ [](Len(freed) <= Len(ChainBlocks) /\ freed = SubSeq(ChainBlocks, 1, Len(freed)))
  /\ [][FreeTurn => (free_current \notin FreedSet /\ free_current' = heap[free_current].next)]_vars
  /\ [](pc = "released" => (freed = ChainBlocks /\ FreedSet = Addrs))
  /\ (pc = "free_loop") ~> (pc # "free_loop")

C12_Witness ==
  /\ pc = "released" /\ last.op = "free_blockchain"
  /\ Len(ChainBlocks) = 3 /\ freed = ChainBlocks

\* the blocks met from a by following next links, at most fuel of them
RECURSIVE Reach(_, _, _)
Reach(h, a, fuel) ==
  IF a = NULL \/ fuel = 0 THEN <<>> ELSE <<a>> \o Reach(h, h[a].next, fuel - 1)

C14_WritesStayInField ==
  Pristine =>
    \A b \in Addrs :
      /\ Len(ReadPreviousHash(heap[b])) <= HASH_LENGTH
      /\ Len(heap[b].current_hash) <= HASH_LENGTH
      /\ heap[b].pad = Malloc.pad
      /\ \A i \in (heap[b].transaction_count + 1)..MAX_TRANSACTIONS :
           heap[b].transactions[i] = NoTx

\* C15, as claimed: main calls verify_blockchain on the head of the chain, the
\* handle it gives to print_blockchain and free_blockchain, so that the four
\* blocks are compared and main reports the chain as valid.
C15_MainVerifiesTheHead ==
  last.op = "verify_blockchain" =>
    /\ last.block = blockchain
    /\ last.ret = verify_blockchain(heap, blockchain).ret
    /\ last.ret = 1 /\ last.out = "Blockchain is valid!"

====
